---------------------------- MODULE Spec2Model ----------------------------
(***************************************************************************)
(* A model of the device-status repository:                                *)
(*   - xio_firmware_scan.py : the batched, round-robin firmware/status     *)
(*     poller with its persisted cursor document (Spec, SpecWindow);       *)
(*   - key_summary.py       : status classification, location              *)
(*     classification and the deduplicating aggregation (SpecStatus,       *)
(*     SpecBuilding, SpecSummary, SpecDedup);                              *)
(*   - xio_summary.py       : resolution of a device's group to a group of *)
(*     interest through the parent hierarchy (SpecGroups), and main with   *)
(*     the overall and per-group summaries (SpecXio);                      *)
(*   - the buckets either program produces (SpecBuckets).                  *)
(* Every specification drives one component; the variables of the other    *)
(* components are parked at their initial values.                          *)
(***************************************************************************)
EXTENDS Integers, Sequences, FiniteSets, TLC

VARIABLES
    \* ---- xio_firmware_scan.py ------------------------------------------
    SCAN_BATCH_SIZE,   \* the module constant of line 21, fixed per behaviour
    inventory,         \* the upstream listing when it is held fixed
                       \* (SpecWindow); <<>> when every fetch may see another
    file,              \* xio-firmware-metadata.json on disk
    pc,                \* position of main() in the current run
    meta_obj,          \* the document held in memory (meta + devices)
    device_ids,        \* sorted(set(device_ids)) of the latest listing
    last_index,        \* int(state.get("lastScanIndex", 0))
    batch_size,        \* min(SCAN_BATCH_SIZE, total_devices)
    i,                 \* loop variable of "for i in range(batch_size)"
    scanned,           \* successful polls of this run
    \* history of the current run (not program state)
    attempts,          \* device ids handed to fetch_device_status, in order
    selected,          \* the indices idx computed to select them, in order
    limited,           \* a per-device fetch answered 429 in this run
    callsAfterLimit,   \* external calls issued after that 429
    snapshot,          \* the file as load_firmware_metadata found it
    resumeDev,         \* device whose poll was rate-limited in the run that
                       \* wrote the file, while the device list is unchanged
    recent,            \* while the fleet is held fixed: the sets of devices
                       \* polled by the latest completed runs, as many runs
                       \* as a full cycle takes
    \* ---- key_summary.py: normalize_status -------------------------------
    raw_status,        \* the "Status" value of a record
    status,            \* what normalize_status returned for it
    counted,           \* the label the record is counted under, if any
    st_pc,
    \* ---- key_summary.py: get_building_name ------------------------------
    division,          \* the argument
    building,          \* the building returned
    bd_pc,
    \* ---- key_summary.py: build_summary --------------------------------
    seen_keys,         \* identity keys met so far
    overall,           \* Counter: status code -> count
    by_division,       \* division -> Counter
    by_building,       \* building -> Counter
    building_divisions,\* building -> set of divisions
    total_computers,   \* summary["total_computers"]
    divisions_list,    \* summary["divisions"]
    buildings_list,    \* summary["buildings"]
    processed,         \* records of the input consumed so far
    sm_pc,
    \* history of build_summary (not program state)
    firstOf,           \* key -> what the first record carrying it looked like
    countedFor,        \* key -> devices counted for records carrying it
    loose,             \* <<status, division>> -> countable records without key
    skipped,           \* <<key, status, countable>> of the records skipped
                       \* as duplicates
    \* ---- key_summary.py: the deduplication step on its own -------------
    computers,         \* a sequence of records
    deduped,           \* the records that pass the step
    deduped_again,     \* the records of deduped that pass it again
    dd_pc,
    \* ---- xio_summary.py: find_interest_root_group ----------------------
    parent_map,        \* group id -> parent group id (or None)
    device_group_id,   \* the leaf group id the walk starts from
    gid,               \* the id under examination
    visited,           \* the ids already left behind
    root_gid,          \* the value returned: {} for None, {id} for an id
    gr_pc,
    visits,            \* history: ids examined by the loop so far
    \* ---- xio_summary.py: main and its summaries ------------------------
    devices,           \* the device records fetch_account_devices returned
    summary,           \* summarize_overall(devices)["device"], {} before
    counts_by_label,   \* dict label -> status counts, in insertion order
    dev_i,             \* devices consumed by the loop of line 284
    group_summary,     \* None ({}) or the list group_summary["groups"]
    groups_flat,       \* the rows written to xio-groups-flat.json
    xs_pc,
    \* history of summarize_groups_of_interest (not program state)
    rootOf,            \* per device consumed: what the resolver returned
    countedUnder       \* per device consumed: the labels incremented for it

scanVars == <<SCAN_BATCH_SIZE, inventory, file, pc, meta_obj, device_ids,
              last_index, batch_size, i, scanned, attempts, selected, limited,
              callsAfterLimit, snapshot, resumeDev, recent>>

statusVars == <<raw_status, status, counted, st_pc>>

buildingVars == <<division, building, bd_pc>>

summaryVars == <<seen_keys, overall, by_division, by_building,
                 building_divisions, total_computers, divisions_list,
                 buildings_list, processed, sm_pc,
                 firstOf, countedFor, loose, skipped>>

dedupVars == <<computers, deduped, deduped_again, dd_pc>>

groupVars == <<parent_map, device_group_id, gid, visited, root_gid, gr_pc,
               visits>>

xioVars == <<devices, summary, counts_by_label, dev_i, group_summary,
             groups_flat, xs_pc, rootOf, countedUnder>>

vars == <<scanVars, statusVars, buildingVars, summaryVars, dedupVars,
          groupVars, xioVars>>

\* the variables of the components other than the one named
notScan == <<statusVars, buildingVars, summaryVars, dedupVars,
    groupVars, xioVars>>
notStatus == <<scanVars, buildingVars, summaryVars, dedupVars,
    groupVars, xioVars>>
notBuilding == <<scanVars, statusVars, summaryVars, dedupVars,
    groupVars, xioVars>>
notSummary == <<scanVars, statusVars, buildingVars, dedupVars,
    groupVars, xioVars>>
\* the resolver leaves the variables of main alone while it runs
notGroups == <<scanVars, statusVars, buildingVars, summaryVars, dedupVars,
    xioVars>>
notDedup == <<scanVars, statusVars, buildingVars, summaryVars,
    groupVars, xioVars>>
\* the components other than xio_summary.py
notXio == <<scanVars, statusVars, buildingVars, summaryVars, dedupVars>>

-----------------------------------------------------------------------------
(* Bounds of the model.                                                    *)

\* device identities are 1..MaxDevices (their order is the order of the ids)
MaxDevices == 3
\* configured batch sizes range over 1..MaxBatch
MaxBatch == 2
\* bounds of the failure-free runs over a fixed inventory (SpecWindow)
WindowMaxDevices == 10
WindowMaxBatch == 5
\* status texts are built from at most MaxStatusWords fragments, integer
\* status codes range over -1..MaxCode
MaxStatusWords == 3
MaxCode == 5
\* division names are built from at most MaxDivisionWords names
MaxDivisionWords == 4
\* build_summary consumes at most MaxComputers records
MaxComputers == 3
\* the deduplication step alone is applied to at most MaxDedupLen records
MaxDedupLen == 4
\* group trees hold, besides two groups of interest, at most MaxOtherGroups
\* groups
MaxOtherGroups == 2
\* main of xio_summary.py is given at most MaxGroupDevices devices
MaxGroupDevices == 2

-----------------------------------------------------------------------------
(* xio_firmware_scan.py                                                    *)

\* _first(...) found no usable id: the record is skipped ("if not dev_id")
NoId == 0

Min(a, b) == IF a <= b THEN a ELSE b

\* the set of elements of a sequence: set(device_ids)
Range(s) == {s[k] : k \in DOMAIN s}

\* sorted(...) of a set of ids: ascending
RECURSIVE Sorted(_)
Sorted(S) ==
    IF S = {} THEN <<>>
    ELSE LET m == CHOOSE x \in S : \A y \in S : x <= y
         IN  <<m>> \o Sorted(S \ {m})

\* lines 144-158: the ids of the listing, records without an id skipped
RECURSIVE ListedIds(_)
ListedIds(listing) ==
    IF listing = <<>> THEN <<>>
    ELSE IF Head(listing) = NoId THEN ListedIds(Tail(listing))
    ELSE <<Head(listing)>> \o ListedIds(Tail(listing))

\* line 164: device_ids = sorted(set(device_ids))
SortedSet(ids) == Sorted(Range(ids))

\* the "meta" object of a document that was never written: {}
EmptyMeta == [k \in {} |-> 0]

\* states of xio-firmware-metadata.json
MissingFile == [kind |-> "missing", meta |-> EmptyMeta, devices |-> {}]
\* open(..., "w") has truncated it and nothing has reached the disk yet
TruncatedFile == [kind |-> "empty", meta |-> EmptyMeta, devices |-> {}]
\* json.dump has written a prefix of the document
PartialFile == [kind |-> "partial", meta |-> EmptyMeta, devices |-> {}]
DocFile(doc) == [kind |-> "doc", meta |-> doc.meta, devices |-> doc.devices]

\* load_firmware_metadata on a readable file
LoadedDoc(f) ==
    IF f.kind = "missing" THEN [meta |-> EmptyMeta, devices |-> {}]
    ELSE [meta |-> f.meta, devices |-> f.devices]

\* line 167: int(state.get("lastScanIndex", 0))
LastScanIndex(state) ==
    IF "lastScanIndex" \in DOMAIN state THEN state["lastScanIndex"] ELSE 0

\* line 178: idx = (last_index + i) % total_devices
WindowIndexNoWrap(k) == last_index + k
WindowIndex(k) == (last_index + k) % Len(device_ids)

\* line 229: new_index = (last_index + scanned) % total_devices
NewIndexNoWrap == last_index + scanned
NewIndexByBatch == (last_index + batch_size) % Len(device_ids)
NewIndex == (last_index + scanned) % Len(device_ids)

\* line 168: batch_size = min(SCAN_BATCH_SIZE, total_devices)
BatchSizeUncapped(total_devices) == SCAN_BATCH_SIZE
BatchSize(total_devices) == Min(SCAN_BATCH_SIZE, total_devices)

\* ceil(N / min(B, N)): the runs a full cycle over the current list takes
RunsToCover ==
    LET n == Len(device_ids)
        b == Min(SCAN_BATCH_SIZE, n)
    IN  (n + b - 1) \div b

\* the last k entries of a log
LastRuns(log, k) ==
    IF Len(log) <= k THEN log ELSE SubSeq(log, Len(log) - k + 1, Len(log))

\* the listings the account-devices endpoint may return: any order,
\* duplicates, records without an id
RECURSIVE SeqsUpTo(_, _)
SeqsUpTo(S, n) ==
    IF n = 0 THEN {<<>>}
    ELSE LET shorter == SeqsUpTo(S, n - 1)
         IN  shorter \cup {Append(s, x) : s \in shorter, x \in S}
Listings == SeqsUpTo(0..MaxDevices, MaxDevices)

\* a fixed fleet of n devices as the endpoint lists it: descending, with the
\* first record repeated at the end
FleetListing(n) == [k \in 1..(n + 1) |-> IF k = n + 1 THEN n ELSE n + 1 - k]

runHistoryReset ==
    /\ attempts' = <<>>
    /\ selected' = <<>>
    /\ limited' = FALSE
    /\ callsAfterLimit' = 0

\* lines 134-137: a run starts and reads the persisted document; json.load
\* raises on a file that holds no complete document
StartRun ==
    /\ UNCHANGED notScan
    /\ pc \in {"idle", "done", "aborted"}
    /\ snapshot' = file
    /\ runHistoryReset
    /\ i' = 0
    /\ scanned' = 0
    /\ last_index' = 0
    /\ batch_size' = 0
    /\ IF file.kind \in {"empty", "partial"}
       THEN /\ pc' = "aborted"
            /\ meta_obj' = [meta |-> EmptyMeta, devices |-> {}]
       ELSE /\ pc' = "loaded"
            /\ meta_obj' = LoadedDoc(file)
    /\ UNCHANGED <<SCAN_BATCH_SIZE, inventory, recent, file, device_ids, resumeDev>>

\* lines 140-172: the listing arrived; ids extracted, sorted, deduplicated
FetchAccountDevices(listing) ==
    /\ UNCHANGED notScan
    /\ pc = "loaded"
    /\ LET ids == ListedIds(listing)
           sorted_ids == SortedSet(ids)
       IN  /\ device_ids' = sorted_ids
           /\ resumeDev' = IF sorted_ids = device_ids THEN resumeDev ELSE NoId
           /\ IF ids = <<>>
              THEN /\ pc' = "done"
                   /\ UNCHANGED <<last_index, batch_size>>
              ELSE /\ pc' = "scanning"
                   /\ last_index' = LastScanIndex(meta_obj.meta)
                   /\ batch_size' = BatchSize(Len(sorted_ids))
    /\ callsAfterLimit' = IF limited THEN callsAfterLimit + 1 ELSE callsAfterLimit
    /\ UNCHANGED <<SCAN_BATCH_SIZE, inventory, recent, file, meta_obj, i, scanned,
                   attempts, selected, limited, snapshot>>

FetchAnyListing == \E listing \in Listings : FetchAccountDevices(listing)

FetchFleetListing == FetchAccountDevices(inventory)

\* lines 54-60: the account-devices call answers 429 (SystemExit, not caught
\* by main) or fails (raise_for_status): the run ends before any write
FetchAccountDevicesFails ==
    /\ UNCHANGED notScan
    /\ pc = "loaded"
    /\ pc' = "aborted"
    /\ UNCHANGED <<SCAN_BATCH_SIZE, inventory, recent, file, meta_obj, device_ids,
                   last_index, batch_size, i, scanned, attempts, selected,
                   limited, callsAfterLimit, snapshot, resumeDev>>

\* lines 177-186: the loop selects the next device and calls the endpoint
PollSelects(idx) ==
    /\ pc = "scanning"
    /\ i < batch_size
    /\ selected' = Append(selected, idx)
    /\ callsAfterLimit' = IF limited THEN callsAfterLimit + 1 ELSE callsAfterLimit

InRange(idx) == idx + 1 \in DOMAIN device_ids

\* lines 186-227: the poll succeeds and the metadata is merged in memory
PollOk ==
    LET idx == WindowIndex(i) IN
    /\ UNCHANGED notScan
    /\ PollSelects(idx)
    /\ InRange(idx)
    /\ attempts' = Append(attempts, device_ids[idx + 1])
    /\ meta_obj' = [meta_obj EXCEPT !.devices = @ \cup {device_ids[idx + 1]}]
    /\ scanned' = scanned + 1
    /\ i' = i + 1
    /\ pc' = IF i + 1 = batch_size THEN "finish" ELSE "scanning"
    /\ UNCHANGED <<SCAN_BATCH_SIZE, inventory, recent, file, device_ids, last_index,
                   batch_size, limited, snapshot, resumeDev>>

\* lines 187-189: "except SystemExit: break"
OnRateLimitContinue ==
    /\ i' = i + 1
    /\ pc' = IF i + 1 = batch_size THEN "finish" ELSE "scanning"
OnRateLimit ==
    /\ i' = i
    /\ pc' = "finish"

\* lines 123-127, 187-189: the poll answers 429
PollRateLimited ==
    LET idx == WindowIndex(i) IN
    /\ UNCHANGED notScan
    /\ PollSelects(idx)
    /\ InRange(idx)
    /\ attempts' = Append(attempts, device_ids[idx + 1])
    /\ limited' = TRUE
    /\ OnRateLimit
    /\ UNCHANGED <<SCAN_BATCH_SIZE, inventory, recent, file, meta_obj, device_ids,
                   last_index, batch_size, scanned, snapshot, resumeDev>>

\* line 129: raise_for_status raises (not a SystemExit), or line 179 raises
\* IndexError: the exception leaves main before anything is written
PollFails ==
    LET idx == WindowIndex(i) IN
    /\ UNCHANGED notScan
    /\ PollSelects(idx)
    /\ attempts' = IF InRange(idx) THEN Append(attempts, device_ids[idx + 1])
                   ELSE attempts
    /\ pc' = "aborted"
    /\ UNCHANGED <<SCAN_BATCH_SIZE, inventory, recent, file, meta_obj, device_ids,
                   last_index, batch_size, i, scanned, limited, snapshot,
                   resumeDev>>

\* lines 229-233 and 106-107: the cursor is advanced in the in-memory
\* document, then open(..., "w") truncates the file
SaveOpens ==
    /\ UNCHANGED notScan
    /\ pc = "finish"
    /\ meta_obj' = [meta_obj EXCEPT !.meta =
                        [lastScanIndex |-> NewIndex,
                         lastDeviceCount |-> Len(device_ids),
                         scanBatchSize |-> SCAN_BATCH_SIZE]]
    /\ file' = TruncatedFile
    /\ pc' = "opened"
    /\ UNCHANGED <<SCAN_BATCH_SIZE, inventory, recent, device_ids, last_index,
                   batch_size, i, scanned, attempts, selected, limited,
                   callsAfterLimit, snapshot, resumeDev>>

\* line 108: json.dump streams the document into the open file
SaveDumps ==
    /\ UNCHANGED notScan
    /\ pc = "opened"
    /\ file' = PartialFile
    /\ pc' = "dumping"
    /\ UNCHANGED <<SCAN_BATCH_SIZE, inventory, recent, meta_obj, device_ids,
                   last_index, batch_size, i, scanned, attempts, selected,
                   limited, callsAfterLimit, snapshot, resumeDev>>

\* lines 107-112: the with-block closes the file; main returns
SaveCloses ==
    /\ UNCHANGED notScan
    /\ pc = "dumping"
    /\ file' = DocFile(meta_obj)
    /\ pc' = "done"
    /\ recent' = IF inventory = <<>> THEN recent
               ELSE LastRuns(Append(recent, Range(attempts)), RunsToCover)
    /\ resumeDev' = IF limited THEN attempts[Len(attempts)] ELSE NoId
    /\ UNCHANGED <<SCAN_BATCH_SIZE, inventory, meta_obj, device_ids,
                   last_index, batch_size, i, scanned, attempts, selected,
                   limited, callsAfterLimit, snapshot>>

\* the process dies in the middle of a run (killed, power loss)
Crash ==
    /\ UNCHANGED notScan
    /\ pc \in {"loaded", "scanning", "finish", "opened", "dumping"}
    /\ pc' = "aborted"
    /\ UNCHANGED <<SCAN_BATCH_SIZE, inventory, recent, file, meta_obj, device_ids,
                   last_index, batch_size, i, scanned, attempts, selected,
                   limited, callsAfterLimit, snapshot, resumeDev>>

ScanIdle ==
    /\ pc = "idle"
    /\ meta_obj = [meta |-> EmptyMeta, devices |-> {}]
    /\ device_ids = <<>>
    /\ last_index = 0
    /\ batch_size = 0
    /\ i = 0
    /\ scanned = 0
    /\ attempts = <<>>
    /\ selected = <<>>
    /\ limited = FALSE
    /\ callsAfterLimit = 0
    /\ resumeDev = NoId
    /\ recent = <<>>

-----------------------------------------------------------------------------
(* Text, as Python handles it                                              *)

\* None, where a text is expected (comp.get(...) of an absent field)
PyNone == "<None>"

Whitespace == {" ", "\t", "\n"}

UpperCase == "ABCDEFGHIJKLMNOPQRSTUVWXYZ"
LowerCase == "abcdefghijklmnopqrstuvwxyz"
Digits == "0123456789"

CharAt(s, k) == SubSeq(s, k, k)
From(s, k) == SubSeq(s, k, Len(s))

\* str.lower()
LowerChar(c) ==
    IF \E k \in 1..26 : CharAt(UpperCase, k) = c
    THEN CharAt(LowerCase, CHOOSE k \in 1..26 : CharAt(UpperCase, k) = c)
    ELSE c
RECURSIVE Lower(_)
Lower(s) == IF s = "" THEN "" ELSE LowerChar(CharAt(s, 1)) \o Lower(From(s, 2))

\* str.strip()
RECURSIVE LStrip(_)
LStrip(s) ==
    IF s # "" /\ CharAt(s, 1) \in Whitespace THEN LStrip(From(s, 2)) ELSE s
RECURSIVE RStrip(_)
RStrip(s) ==
    IF s # "" /\ CharAt(s, Len(s)) \in Whitespace
    THEN RStrip(SubSeq(s, 1, Len(s) - 1)) ELSE s
Strip(s) == RStrip(LStrip(s))

\* str.startswith(prefix) and "pattern in text"
StartsWith(s, prefix) ==
    Len(prefix) <= Len(s) /\ SubSeq(s, 1, Len(prefix)) = prefix
Contains(s, pattern) ==
    \E k \in 1..(Len(s) - Len(pattern) + 1) :
        SubSeq(s, k, k + Len(pattern) - 1) = pattern

\* str.split(): the maximal runs of non-whitespace characters
RECURSIVE SplitFrom(_, _)
SplitFrom(s, word) ==
    IF s = "" THEN (IF word = "" THEN <<>> ELSE <<word>>)
    ELSE IF CharAt(s, 1) \in Whitespace
         THEN (IF word = "" THEN <<>> ELSE <<word>>) \o SplitFrom(From(s, 2), "")
         ELSE SplitFrom(From(s, 2), word \o CharAt(s, 1))
Split(s) == SplitFrom(s, "")

\* int(text): surrounding whitespace, an optional sign, decimal digits;
\* {} stands for ValueError
IsDigit(c) == \E k \in 1..10 : CharAt(Digits, k) = c
DigitValue(c) == (CHOOSE k \in 1..10 : CharAt(Digits, k) = c) - 1
RECURSIVE DigitsValue(_, _)
DigitsValue(s, acc) ==
    IF s = "" THEN acc
    ELSE DigitsValue(From(s, 2), 10 * acc + DigitValue(CharAt(s, 1)))
AllDigits(s) == s # "" /\ \A k \in 1..Len(s) : IsDigit(CharAt(s, k))
ParseInt(text) ==
    LET t == Strip(text)
        signed == t # "" /\ CharAt(t, 1) \in {"+", "-"}
        digits == IF signed THEN From(t, 2) ELSE t
    IN  IF ~AllDigits(digits) THEN {}
        ELSE IF signed /\ CharAt(t, 1) = "-" THEN {0 - DigitsValue(digits, 0)}
        ELSE {DigitsValue(digits, 0)}

\* the texts made of at most n fragments of a lexicon, put one after another
RECURSIVE Texts(_, _)
Texts(lexicon, n) ==
    IF n = 0 THEN {""}
    ELSE LET shorter == Texts(lexicon, n - 1)
         IN  shorter \cup {t \o w : t \in shorter, w \in lexicon}

\* the names made of 1..n words of a lexicon, separated by single spaces
RECURSIVE Names(_, _)
Names(lexicon, n) ==
    IF n = 1 THEN lexicon
    ELSE LET shorter == Names(lexicon, n - 1)
         IN  shorter \cup {t \o " " \o w : t \in shorter, w \in lexicon}

-----------------------------------------------------------------------------
(* key_summary.py: normalize_status                                        *)

\* lines 16-21
STATUS_LABELS == (0 :> "Offline") @@ (2 :> "Available") @@ (4 :> "In Use")
ALLOWED_STATUS == DOMAIN STATUS_LABELS

\* a raw status is None, an integer or a text; a returned status is {} for
\* None and {code} for an integer code
NoneValue == [type |-> "none", n |-> 0, s |-> ""]
IntValue(n) == [type |-> "int", n |-> n, s |-> ""]
StrValue(s) == [type |-> "str", n |-> 0, s |-> s]

\* str(raw_status)
Str(raw) == IF raw.type = "str" THEN raw.s ELSE "None"

\* lines 50-53: code = int(raw_status), None on TypeError or ValueError
IntOf(raw) ==
    IF raw.type = "int" THEN {raw.n}
    ELSE IF raw.type = "str" THEN ParseInt(raw.s)
    ELSE {}

\* lines 55-62
StatusOfCodeNoRemap(code) == IF code = 1 THEN {} ELSE {code}
StatusOfCode(code) ==
    IF code = 1 THEN {}
    ELSE IF code = 3 THEN {2}
    ELSE {code}

\* lines 64-73
StatusOfTextInUseFirst(text) ==
    LET s == Lower(Strip(text))
    IN  IF StartsWith(s, "off") THEN {0}
        ELSE IF Contains(s, "in use") \/ Contains(s, "active") THEN {4}
        ELSE IF Contains(s, "idle") THEN {2}
        ELSE IF Contains(s, "avail") \/ Contains(s, "online") THEN {2}
        ELSE {}
StatusOfText(text) ==
    LET s == Lower(Strip(text))
    IN  IF StartsWith(s, "off") THEN {0}
        ELSE IF Contains(s, "idle") THEN {2}
        ELSE IF Contains(s, "avail") \/ Contains(s, "online") THEN {2}
        ELSE IF Contains(s, "in use") \/ Contains(s, "active") THEN {4}
        ELSE {}

\* lines 46-73
normalize_status(raw) ==
    IF raw.type = "none" THEN {}
    ELSE LET code == IntOf(raw)
         IN  IF code # {} THEN StatusOfCode(CHOOSE c \in code : TRUE)
             ELSE StatusOfText(Str(raw))

\* the raw status values of the model
StatusLexicon ==
    {"Off", "idle", "avail", "online", "in use", "active", " ", "x", "1", "3",
     "-"}
RawStatuses ==
    {NoneValue} \cup {IntValue(n) : n \in (0 - 1)..MaxCode}
                \cup {StrValue(t) : t \in Texts(StatusLexicon, MaxStatusWords)}

\* lines 155-156: status = normalize_status(raw_status)
NormalizeStatus ==
    /\ st_pc = "raw"
    /\ status' = normalize_status(raw_status)
    /\ st_pc' = "normalized"
    /\ UNCHANGED <<raw_status, counted>>
    /\ UNCHANGED notStatus

\* lines 157-165: the record is dropped unless its status is an allowed
\* code; otherwise it is counted under that code, whose label is
\* STATUS_LABELS[code] (lines 168-175); "" stands for "not counted"
CountStatus ==
    /\ st_pc = "normalized"
    /\ IF status \cap ALLOWED_STATUS = {}
       THEN /\ counted' = ""
            /\ st_pc' = "skipped"
       ELSE /\ counted' = STATUS_LABELS[CHOOSE c \in status : TRUE]
            /\ st_pc' = "counted"
    /\ UNCHANGED <<raw_status, status>>
    /\ UNCHANGED notStatus

StatusOff ==
    /\ raw_status = NoneValue
    /\ status = {}
    /\ counted = ""
    /\ st_pc = "off"

-----------------------------------------------------------------------------
(* key_summary.py: get_building_name                                       *)

\* lines 25-43, in the order of the dict literal
BUILDING_PATTERNS == <<
    [building |-> "Classrooms", patterns |-> <<"classroom support">>],
    [building |-> "Marston Science Library", patterns |-> <<"marston">>],
    [building |-> "Library West", patterns |-> <<"lbw", "lw ">>],
    [building |-> "Smathers Library", patterns |-> <<"smathers">>],
    [building |-> "Antevy Hall", patterns |-> <<"arch">>],
    [building |-> "Architecture & Fine Arts Library",
     patterns |-> <<"afa library">>],
    [building |-> "Health Science Center Library", patterns |-> <<"hscl">>],
    [building |-> "Education Library",
     patterns |-> <<"norman library", "edu">>],
    [building |-> "Computer Science & Engineering",
     patterns |-> <<"cse", "computer science">>],
    [building |-> "Norman Hall",
     patterns |-> <<"nrn 1st floor", "norman hall">>],
    [building |-> "Newell Hall", patterns |-> <<"newell">>],
    [building |-> "Weil Hall", patterns |-> <<"weil">>],
    [building |-> "Turlington Hall", patterns |-> <<"turlington">>],
    [building |-> "Holland Law", patterns |-> <<"law library">>],
    [building |-> "Hawkins Center", patterns |-> <<"uaa">>],
    [building |-> "McCarty Hall B", patterns |-> <<"mccb">>],
    [building |-> "Hub", patterns |-> <<"hub 120">>] >>

\* lines 80-82: one table entry's patterns against the text
RECURSIVE AnyPatternIn(_, _)
AnyPatternIn(patterns, text) ==
    IF patterns = <<>> THEN FALSE
    ELSE IF Contains(text, Head(patterns)) THEN TRUE
    ELSE AnyPatternIn(Tail(patterns), text)

\* lines 79-82: the table is walked from entry k on; {} when nothing matches
RECURSIVE MatchFrom(_, _)
MatchFrom(text, k) ==
    IF k > Len(BUILDING_PATTERNS) THEN {}
    ELSE IF AnyPatternIn(BUILDING_PATTERNS[k].patterns, text)
         THEN {BUILDING_PATTERNS[k].building}
         ELSE MatchFrom(text, k + 1)
RECURSIVE MatchDownFrom(_, _)
MatchDownFrom(text, k) ==
    IF k < 1 THEN {}
    ELSE IF AnyPatternIn(BUILDING_PATTERNS[k].patterns, text)
         THEN {BUILDING_PATTERNS[k].building}
         ELSE MatchDownFrom(text, k - 1)

MatchBuildingLastWins(text) == MatchDownFrom(text, Len(BUILDING_PATTERNS))
MatchBuilding(text) == MatchFrom(text, 1)

\* lines 76-87
get_building_name(d) ==
    LET given == d # PyNone /\ d # ""
        text == Lower(IF given THEN d ELSE "")
        match == MatchBuilding(text)
    IN  IF match # {} THEN CHOOSE b \in match : TRUE
        ELSE IF given /\ Len(Split(d)) <= 3 THEN d
        ELSE "Other / Ungrouped"

\* the division names of the model
DivisionWords ==
    {"Marston", "Architecture", "AFA Library", "Norman Hall", "Education",
     "LW", "Physics"}
Divisions ==
    {PyNone, "", " ", "Marston Science Library 3rd floor",
     "Unknown Dept X Y Z W"} \cup Names(DivisionWords, MaxDivisionWords)

\* the call building = get_building_name(division)
GetBuildingName ==
    /\ bd_pc = "call"
    /\ building' = get_building_name(division)
    /\ bd_pc' = "returned"
    /\ UNCHANGED division
    /\ UNCHANGED notBuilding

BuildingOff ==
    /\ division = PyNone
    /\ building = ""
    /\ bd_pc = "off"

-----------------------------------------------------------------------------
(* key_summary.py: build_summary                                           *)

\* a "computer" record of the inventory; PyNone is an absent field
Computer(id, ident1, ident2, name, div, allowed, st) ==
    [ID |-> id, Ident |-> ident1, ident |-> ident2, Name |-> name,
     Division |-> div, Allowed |-> allowed, Status |-> st]

\* Python truth of a text field: neither None nor ""
Truthy(v) == v # PyNone /\ v # ""

\* lines 128-133: comp.get("ID") or comp.get("Ident") or comp.get("ident")
\* or comp.get("Name")
RecordKey(comp) ==
    IF Truthy(comp.ID) THEN comp.ID
    ELSE IF Truthy(comp.Ident) THEN comp.Ident
    ELSE IF Truthy(comp.ident) THEN comp.ident
    ELSE comp.Name

\* lines 134-136: "if key: if key in seen_keys: continue"
IsDuplicateOrKeyless(key, seen) == ~Truthy(key) \/ key \in seen
NeverDuplicate(key, seen) == FALSE
IsDuplicate(key, seen) == Truthy(key) /\ key \in seen

\* line 137: seen_keys.add(key), under "if key"
SeenAfter(key, seen) == IF Truthy(key) THEN seen \cup {key} ELSE seen

\* lines 139-148: UFApps, LabVDI and MADE@UF divisions are left out
DivisionRaw(comp) == IF Truthy(comp.Division) THEN comp.Division ELSE ""
ExcludedDivision(comp) ==
    LET div_name_lower == Lower(DivisionRaw(comp))
    IN  \/ Contains(div_name_lower, "ufapps")
        \/ Contains(div_name_lower, "labvdi")
        \/ Contains(div_name_lower, "made@uf")

\* lines 23, 103-116: DEDICATED_ALLOWED_VALUES = {"4", 4}
is_dedicated(allowed_val) ==
    CASE allowed_val.type = "none" -> FALSE
      [] allowed_val.type = "int" -> allowed_val.n = 4
      [] OTHER -> allowed_val.s = "4" \/ Lower(Strip(allowed_val.s)) = "4"

\* line 160: division = div_name_raw or "Unassigned"
DivisionOf(comp) ==
    IF DivisionRaw(comp) = "" THEN "Unassigned" ELSE DivisionRaw(comp)

\* lines 139-158: the record passes every filter after the deduplication
Countable(comp) ==
    /\ ~ExcludedDivision(comp)
    /\ is_dedicated(comp.Allowed)
    /\ normalize_status(comp.Status) \cap ALLOWED_STATUS # {}

\* Counter: a missing key counts 0, "+= 1" creates it
CountOf(counter, key) == IF key \in DOMAIN counter THEN counter[key] ELSE 0
Incremented(counter, key) ==
    IF key \in DOMAIN counter THEN [counter EXCEPT ![key] = @ + 1]
    ELSE counter @@ (key :> 1)
\* defaultdict(Counter)[label][status] += 1
IncrementedIn(table, label, key) ==
    IF label \in DOMAIN table
    THEN [table EXCEPT ![label] = Incremented(@, key)]
    ELSE table @@ (label :> (key :> 1))
\* defaultdict(set)[label].add(x)
AddedIn(table, label, x) ==
    IF label \in DOMAIN table THEN [table EXCEPT ![label] = @ \cup {x}]
    ELSE table @@ (label :> {x})

\* sum(counter.values())
RECURSIVE SumOver(_, _)
SumOver(counter, keys) ==
    IF keys = {} THEN 0
    ELSE LET k == CHOOSE x \in keys : TRUE
         IN  counter[k] + SumOver(counter, keys \ {k})
Total(counter) == SumOver(counter, DOMAIN counter)

\* the records of the model: the key fields a record may carry (ID, Ident,
\* ident, Name), with every division, Allowed value and status
KeyFields ==
    {<<PyNone, PyNone, PyNone, PyNone>>,
     <<"ID-1", PyNone, PyNone, PyNone>>,
     <<"ID-1", PyNone, PyNone, "ID-2">>,
     <<"", PyNone, PyNone, "ID-1">>,
     <<PyNone, "ID-2", PyNone, PyNone>>,
     <<PyNone, PyNone, "ID-2", "ID-1">>}
Computers ==
    {Computer(k[1], k[2], k[3], k[4], div, allowed, st) :
        k \in KeyFields,
        div \in {PyNone, "Marston", "UFApps"},
        allowed \in {IntValue(4), StrValue(" 4 "), IntValue(1)},
        st \in {IntValue(2), IntValue(4), IntValue(1)}}

\* Python orders texts by the code points of their characters: the
\* characters of the model, in the order of their code points
CodePoints ==
    " &-./0123456789@ABCDEFGHIJKLMNOPQRSTUVWXYZabcdefghijklmnopqrstuvwxyz"
Ord(c) == CHOOSE k \in 1..Len(CodePoints) : CharAt(CodePoints, k) = c

\* a < b for two texts, as sorted() compares them
RECURSIVE TextLessFrom(_, _, _)
TextLessFrom(a, b, k) ==
    IF k > Len(b) THEN FALSE
    ELSE IF k > Len(a) THEN TRUE
    ELSE IF CharAt(a, k) = CharAt(b, k) THEN TextLessFrom(a, b, k + 1)
    ELSE Ord(CharAt(a, k)) < Ord(CharAt(b, k))
TextLess(a, b) == TextLessFrom(a, b, 1)

\* lines 178, 194, 207: sorted(...) of distinct texts
RECURSIVE SortedTexts(_)
SortedTexts(texts) ==
    IF texts = {} THEN <<>>
    ELSE LET least == CHOOSE t \in texts :
                          \A u \in texts \ {t} : TextLess(t, u)
         IN  <<least>> \o SortedTexts(texts \ {least})

\* lines 179-186, 195-202: the statuses of a bucket, by ascending code
Statuses(counter) ==
    LET codes == Sorted(DOMAIN counter)
    IN  [k \in DOMAIN codes |->
            [status_code |-> codes[k],
             status_label |-> STATUS_LABELS[codes[k]],
             count |-> counter[codes[k]]]]

\* lines 177-191: summary["divisions"]
DivisionsList(table) ==
    LET labels == SortedTexts(DOMAIN table)
    IN  [k \in DOMAIN labels |->
            [division |-> labels[k],
             total |-> Total(table[labels[k]]),
             statuses |-> Statuses(table[labels[k]])]]

\* lines 193-208: summary["buildings"]
BuildingsList(table, divisions) ==
    LET labels == SortedTexts(DOMAIN table)
    IN  [k \in DOMAIN labels |->
            [building |-> labels[k],
             total |-> Total(table[labels[k]]),
             statuses |-> Statuses(table[labels[k]]),
             divisions |-> SortedTexts(divisions[labels[k]])]]

\* what the history keeps of the first record carrying a key
FirstLook(comp) ==
    [countable |-> Countable(comp),
     status |-> IF Countable(comp)
                THEN CHOOSE c \in normalize_status(comp.Status) : TRUE
                ELSE 0 - 1,
     division |-> IF Countable(comp) THEN DivisionOf(comp) ELSE ""]

\* lines 127-166: one iteration of "for comp in computers"
ProcessComputer(comp) ==
    LET key == RecordKey(comp)
        dup == IsDuplicate(key, seen_keys)
        counts == ~dup /\ Countable(comp)
        st == CHOOSE c \in normalize_status(comp.Status) : TRUE
        div == DivisionOf(comp)
        bld == get_building_name(div)
    IN  /\ sm_pc = "loop"
        /\ processed < MaxComputers
        /\ processed' = processed + 1
        /\ seen_keys' = IF dup THEN seen_keys ELSE SeenAfter(key, seen_keys)
        /\ IF counts
           THEN /\ overall' = Incremented(overall, st)
                /\ by_division' = IncrementedIn(by_division, div, st)
                /\ by_building' = IncrementedIn(by_building, bld, st)
                /\ building_divisions' = AddedIn(building_divisions, bld, div)
           ELSE UNCHANGED <<overall, by_division, by_building,
                            building_divisions>>
        /\ firstOf' = IF Truthy(key) /\ key \notin DOMAIN firstOf
                      THEN firstOf @@ (key :> FirstLook(comp))
                      ELSE firstOf
        /\ countedFor' =
               IF ~Truthy(key) THEN countedFor
               ELSE IF counts THEN Incremented(countedFor, key)
               ELSE IF key \in DOMAIN countedFor THEN countedFor
               ELSE countedFor @@ (key :> 0)
        /\ loose' = IF ~Truthy(key) /\ Countable(comp)
                    THEN Incremented(loose, <<st, div>>)
                    ELSE loose
        /\ skipped' = IF dup
                      THEN skipped \cup {<<key, comp.Status.n, Countable(comp)>>}
                      ELSE skipped
        /\ UNCHANGED <<total_computers, divisions_list, buildings_list,
                       sm_pc>>
        /\ UNCHANGED notSummary

ProcessAnyComputer == \E comp \in Computers : ProcessComputer(comp)

\* records that differ in their division and status only: dedicated, without
\* identity key, their division absent or a free text in either case
NamedComputers ==
    {Computer(PyNone, PyNone, PyNone, PyNone, div, IntValue(4), st) :
        div \in {PyNone, "Marston", "marston lab", "physics"},
        st \in {IntValue(0), IntValue(2)}}

ProcessNamedComputer == \E comp \in NamedComputers : ProcessComputer(comp)

\* lines 168-217: the input is exhausted and the summary is assembled
BuildSummary ==
    /\ sm_pc = "loop"
    /\ sm_pc' = "done"
    /\ total_computers' = Total(overall)
    /\ divisions_list' = DivisionsList(by_division)
    /\ buildings_list' = BuildingsList(by_building, building_divisions)
    /\ UNCHANGED <<seen_keys, overall, by_division, by_building,
                   building_divisions, processed, firstOf, countedFor, loose,
                   skipped>>
    /\ UNCHANGED notSummary

SummaryStart ==
    /\ seen_keys = {}
    /\ overall = <<>>
    /\ by_division = <<>>
    /\ by_building = <<>>
    /\ building_divisions = <<>>
    /\ total_computers = 0
    /\ divisions_list = <<>>
    /\ buildings_list = <<>>
    /\ processed = 0
    /\ firstOf = <<>>
    /\ countedFor = <<>>
    /\ loose = <<>>
    /\ skipped = {}

SummaryOff == SummaryStart /\ sm_pc = "off"

\* lines 125-137 alone: the records of a sequence that the loop does not
\* skip as duplicates
RECURSIVE DedupFrom(_, _)
DedupFrom(records, seen) ==
    IF records = <<>> THEN <<>>
    ELSE LET comp == Head(records)
             key == RecordKey(comp)
         IN  IF IsDuplicate(key, seen) THEN DedupFrom(Tail(records), seen)
             ELSE <<comp>> \o DedupFrom(Tail(records), SeenAfter(key, seen))
Dedup(records) == DedupFrom(records, {})

\* the records the step is tried on: they differ in their key fields and in
\* their status
DedupComputers ==
    {Computer(id, PyNone, PyNone, name, "Marston", IntValue(4), st) :
        id \in {PyNone, "ID-1"},
        name \in {PyNone, "ID-1", "PC-9"},
        st \in {IntValue(2), IntValue(4)}}

Deduplicate ==
    /\ dd_pc = "input"
    /\ deduped' = Dedup(computers)
    /\ dd_pc' = "once"
    /\ UNCHANGED <<computers, deduped_again>>
    /\ UNCHANGED notDedup

DeduplicateAgain ==
    /\ dd_pc = "once"
    /\ deduped_again' = Dedup(deduped)
    /\ dd_pc' = "twice"
    /\ UNCHANGED <<computers, deduped>>
    /\ UNCHANGED notDedup

DedupOff ==
    /\ computers = <<>>
    /\ deduped = <<>>
    /\ deduped_again = <<>>
    /\ dd_pc = "off"

-----------------------------------------------------------------------------
(* xio_summary.py: find_interest_root_group                                *)

\* lines 20-28: the groups of interest. Group ids are numbers in the model:
\* 1..6 stand for the six configured ids, in the order of the dict literal
GROUPS_OF_INTEREST ==
    <<"Malachowsky Hall", "Scheduling Panels", "UF Libraries",
      "UFIT AV Install Group", "UFIT Conference Rooms", "UFIT Learning Spaces">>
GROUP_IDS_OF_INTEREST == DOMAIN GROUPS_OF_INTEREST

\* None as a group id: no parent, or a device without a group
NoGroup == 0

\* the group ids that occur in the trees of the model: two groups of
\* interest and the groups after them
TreeIds ==
    {1, 3} \cup (Len(GROUPS_OF_INTEREST) + 1)..(Len(GROUPS_OF_INTEREST)
                                                 + MaxOtherGroups)

\* lines 249-257: the parent maps load_group_tree may build: any group may
\* be listed or not, with no parent or any parent, itself included
ParentMaps ==
    UNION {[listed -> TreeIds \cup {NoGroup}] : listed \in SUBSET TreeIds}

\* line 275: parent_map.get(gid)
ParentOf(g) == IF g \in DOMAIN parent_map THEN parent_map[g] ELSE NoGroup

\* line 270: while gid and gid not in visited
LoopConditionNoGuard == gid # NoGroup
LoopCondition == gid # NoGroup /\ gid \notin visited

\* lines 267-268
EnterFindAtParent ==
    /\ gr_pc = "call"
    /\ visited' = {}
    /\ gid' = ParentOf(device_group_id)
    /\ gr_pc' = "loop"
    /\ UNCHANGED <<parent_map, device_group_id, root_gid, visits>>
    /\ UNCHANGED notGroups
EnterFind ==
    /\ gr_pc = "call"
    /\ visited' = {}
    /\ gid' = device_group_id
    /\ gr_pc' = "loop"
    /\ UNCHANGED <<parent_map, device_group_id, root_gid, visits>>
    /\ UNCHANGED notGroups

\* lines 270-272: the id under examination is a group of interest
ReturnInterest ==
    /\ gr_pc = "loop"
    /\ LoopCondition
    /\ gid \in GROUP_IDS_OF_INTEREST
    /\ root_gid' = {gid}
    /\ visits' = visits + 1
    /\ gr_pc' = "returned"
    /\ UNCHANGED <<parent_map, device_group_id, gid, visited>>
    /\ UNCHANGED notGroups

\* lines 270-275: it is not; the walk moves to its parent
WalkUp ==
    /\ gr_pc = "loop"
    /\ LoopCondition
    /\ gid \notin GROUP_IDS_OF_INTEREST
    /\ visited' = visited \cup {gid}
    /\ gid' = ParentOf(gid)
    /\ visits' = visits + 1
    /\ UNCHANGED <<parent_map, device_group_id, root_gid, gr_pc>>
    /\ UNCHANGED notGroups

\* lines 270, 277: the loop ends without a group of interest
ReturnNone ==
    /\ gr_pc = "loop"
    /\ ~LoopCondition
    /\ root_gid' = {}
    /\ gr_pc' = "returned"
    /\ UNCHANGED <<parent_map, device_group_id, gid, visited, visits>>
    /\ UNCHANGED notGroups

GroupsOff ==
    /\ parent_map = <<>>
    /\ device_group_id = NoGroup
    /\ gid = NoGroup
    /\ visited = {}
    /\ root_gid = {}
    /\ visits = 0
    /\ gr_pc = "off"

-----------------------------------------------------------------------------
(* xio_summary.py: main, summarize_overall, summarize_groups_of_interest    *)

\* a device record: its "device-groupid" (NoGroup when absent or empty) and
\* its "device-status" (PyNone when the key is absent)
Device(g, st) == [group |-> g, status |-> st]

\* lines 104, 295: dev.get("device-status", "Unknown")
DeviceStatus(dev) == IF dev.status = PyNone THEN "Unknown" ELSE dev.status

\* lines 105, 298: counts[status] = counts.get(status, 0) + 1
TalliedKnownOnly(tally, st) ==
    IF st = "Unknown" THEN tally
    ELSE IF st \in DOMAIN tally THEN [tally EXCEPT ![st] = @ + 1]
    ELSE tally @@ (st :> 1)
Tallied(tally, st) ==
    IF st \in DOMAIN tally THEN [tally EXCEPT ![st] = @ + 1]
    ELSE tally @@ (st :> 1)

\* lines 101-105: the status counts of a device list
RECURSIVE StatusCounts(_, _)
StatusCounts(devs, tally) ==
    IF devs = <<>> THEN tally
    ELSE StatusCounts(Tail(devs), Tallied(tally, DeviceStatus(Head(devs))))

\* lines 109, 304: round((online / total) * 100, 1) if total else 0.0, held
\* in tenths of a percent. Below 16 devices online * 1000 / total is never
\* halfway between two integers, so the rounding is to the nearest tenth.
OnlinePct(online, total) ==
    IF total # 0 THEN (2 * 1000 * online + total) \div (2 * total) ELSE 0

\* lines 97-116: summarize_overall(devices)["device"]
summarize_overall(devs) ==
    LET status_counts == StatusCounts(devs, <<>>)
    IN  [counts |-> status_counts,
         total |-> Len(devs),
         onlinePct |-> OnlinePct(CountOf(status_counts, "Online"), Len(devs))]

\* line 282: {label: {} for label in GROUPS_OF_INTEREST.values()}; a dict
\* keeps its keys in insertion order, so it is a sequence of entries
UnseededCounts == <<>>
SeededCounts ==
    [k \in DOMAIN GROUPS_OF_INTEREST |->
        [name |-> GROUPS_OF_INTEREST[k], counts |-> <<>>]]

\* line 297: counts_by_label.setdefault(label, {})
SetDefault(table, label) ==
    IF \E k \in DOMAIN table : table[k].name = label THEN table
    ELSE Append(table, [name |-> label, counts |-> <<>>])

\* lines 297-298: the status is counted under the label
CountedUnder(table, label, st) ==
    LET seeded == SetDefault(table, label)
    IN  [k \in DOMAIN seeded |->
            IF seeded[k].name = label
            THEN [seeded[k] EXCEPT !.counts = Tallied(@, st)]
            ELSE seeded[k]]

\* lines 301-313: one summary per entry of counts_by_label, in its order
GroupSummaries(table) ==
    [k \in DOMAIN table |->
        LET status_counts == table[k].counts
            total == Total(status_counts)
        IN  [name |-> table[k].name,
             counts |-> status_counts,
             total |-> total,
             onlinePct |-> OnlinePct(CountOf(status_counts, "Online"), total)]]

\* lines 411-432: the rows of xio-groups-flat.json
GroupsFlat(groups) ==
    [k \in DOMAIN groups |->
        [group_name |-> groups[k].name,
         total_devices |-> groups[k].total,
         online_count |-> CountOf(groups[k].counts, "Online"),
         offline_count |-> CountOf(groups[k].counts, "Offline"),
         online_pct |-> groups[k].onlinePct]]

\* the device lists of the model: devices without a group, in a group of
\* interest, or in one of two other groups; online, offline or without status
DeviceGroups == {NoGroup, 1, 7, 8}
DeviceRecords ==
    {Device(g, st) : g \in DeviceGroups, st \in {"Online", "Offline", PyNone}}
DeviceLists == SeqsUpTo(DeviceRecords, MaxGroupDevices)

\* the parent maps of the model (lines 249-257): any of the groups 1, 7 and 8
\* listed; the group of interest 1 inside the group of interest 3, the others
\* at the top, inside 1, inside each other or inside themselves. The empty
\* map is what load_group_tree_parent_map returns without a usable file.
SummaryParentMaps ==
    {pm \in UNION {[listed -> {NoGroup, 1, 3, 7, 8}] : listed \in SUBSET {1, 7, 8}} :
        /\ 1 \in DOMAIN pm => pm[1] = 3
        /\ \A g \in DOMAIN pm \ {1} : pm[g] # 3}

\* line 460: summary = summarize_overall(devices)
SummarizeOverall ==
    /\ xs_pc = "fetched"
    /\ summary' = {summarize_overall(devices)}
    /\ xs_pc' = "overall"
    /\ UNCHANGED <<devices, counts_by_label, dev_i, group_summary,
                   groups_flat, rootOf, countedUnder>>
    /\ UNCHANGED groupVars
    /\ UNCHANGED notXio

\* lines 470-474, 282: "if parent_map:" holds; the counts are seeded
EnterGroupSummary ==
    /\ xs_pc = "overall"
    /\ DOMAIN parent_map # {}
    /\ counts_by_label' = SeededCounts
    /\ dev_i' = 0
    /\ xs_pc' = "loop"
    /\ UNCHANGED <<devices, summary, group_summary, groups_flat, rootOf,
                   countedUnder>>
    /\ UNCHANGED groupVars
    /\ UNCHANGED notXio

\* lines 471-473, 482-483: the parent map is empty, group_summary stays None
SkipGroupSummary ==
    /\ xs_pc = "overall"
    /\ DOMAIN parent_map = {}
    /\ group_summary' = {}
    /\ xs_pc' = "flat"
    /\ UNCHANGED <<devices, summary, counts_by_label, dev_i, groups_flat,
                   rootOf, countedUnder>>
    /\ UNCHANGED groupVars
    /\ UNCHANGED notXio

\* lines 284-290: the next device; without a group id it is passed over,
\* with one find_interest_root_group is called
TakeDevice ==
    /\ xs_pc = "loop"
    /\ gr_pc = "off"
    /\ dev_i < Len(devices)
    /\ LET dev == devices[dev_i + 1] IN
       IF dev.group = NoGroup
       THEN /\ dev_i' = dev_i + 1
            /\ rootOf' = Append(rootOf, {})
            /\ countedUnder' = Append(countedUnder, {})
            /\ UNCHANGED groupVars
       ELSE /\ device_group_id' = dev.group
            /\ gr_pc' = "call"
            /\ visits' = 0
            /\ UNCHANGED <<parent_map, gid, visited, root_gid>>
            /\ UNCHANGED <<dev_i, rootOf, countedUnder>>
    /\ UNCHANGED <<devices, summary, counts_by_label, group_summary,
                   groups_flat, xs_pc>>
    /\ UNCHANGED notXio

\* lines 290-298: the resolver returned; the device is counted under the
\* label of the group it returned, or passed over when it returned None
CountDevice ==
    /\ xs_pc = "loop"
    /\ gr_pc = "returned"
    /\ IF root_gid = {}
       THEN /\ countedUnder' = Append(countedUnder, {})
            /\ UNCHANGED counts_by_label
       ELSE LET label == GROUPS_OF_INTEREST[CHOOSE r \in root_gid : TRUE]
                st == DeviceStatus(devices[dev_i + 1])
            IN  /\ counts_by_label' = CountedUnder(counts_by_label, label, st)
                /\ countedUnder' = Append(countedUnder, {label})
    /\ rootOf' = Append(rootOf, root_gid)
    /\ dev_i' = dev_i + 1
    /\ gr_pc' = "off"
    /\ UNCHANGED <<parent_map, device_group_id, gid, visited, root_gid,
                   visits>>
    /\ UNCHANGED <<devices, summary, group_summary, groups_flat, xs_pc>>
    /\ UNCHANGED notXio

\* lines 300-321, 474-476: the loop is over, the summaries are built
BuildGroupSummaries ==
    /\ xs_pc = "loop"
    /\ gr_pc = "off"
    /\ dev_i = Len(devices)
    /\ group_summary' = {GroupSummaries(counts_by_label)}
    /\ xs_pc' = "flat"
    /\ UNCHANGED <<devices, summary, counts_by_label, dev_i, groups_flat,
                   rootOf, countedUnder>>
    /\ UNCHANGED groupVars
    /\ UNCHANGED notXio

\* lines 485, 411-441: build_power_bi_flat_files(devices, group_summary)
BuildFlatFiles ==
    /\ xs_pc = "flat"
    /\ groups_flat' = IF group_summary = {} THEN <<>>
                      ELSE GroupsFlat(CHOOSE g \in group_summary : TRUE)
    /\ xs_pc' = "done"
    /\ UNCHANGED <<devices, summary, counts_by_label, dev_i, group_summary,
                   rootOf, countedUnder>>
    /\ UNCHANGED groupVars
    /\ UNCHANGED notXio

XioOff ==
    /\ devices = <<>>
    /\ summary = {}
    /\ counts_by_label = <<>>
    /\ dev_i = 0
    /\ group_summary = {}
    /\ groups_flat = <<>>
    /\ rootOf = <<>>
    /\ countedUnder = <<>>
    /\ xs_pc = "off"

-----------------------------------------------------------------------------
(* Specifications                                                          *)

\* the poller is installed: no document has been written yet
Init ==
    /\ SCAN_BATCH_SIZE \in 1..MaxBatch
    /\ inventory = <<>>
    /\ file = MissingFile
    /\ snapshot = MissingFile
    /\ ScanIdle
    /\ StatusOff
    /\ BuildingOff
    /\ SummaryOff
    /\ DedupOff
    /\ GroupsOff
    /\ XioOff

Next ==
    \/ StartRun
    \/ FetchAnyListing
    \/ FetchAccountDevicesFails
    \/ PollOk
    \/ PollRateLimited
    \/ PollFails
    \/ SaveOpens
    \/ SaveDumps
    \/ SaveCloses
    \/ Crash

Spec == Init /\ [][Next]_vars

\* a fixed fleet, polled by runs in which no call fails; the document on disk
\* is missing (a new installation) or was left by earlier runs: every device
\* of the earlier list has been polled, the cursor anywhere in that list
InitWindow ==
    /\ SCAN_BATCH_SIZE \in 1..WindowMaxBatch
    /\ \E n \in 1..WindowMaxDevices : inventory = FleetListing(n)
    /\ \/ file = MissingFile
       \/ \E c \in 1..WindowMaxDevices : \E k \in 0..(c - 1) :
              file = DocFile([meta |-> [lastScanIndex |-> k,
                                        lastDeviceCount |-> c,
                                        scanBatchSize |-> SCAN_BATCH_SIZE],
                              devices |-> 1..c])
    /\ snapshot = file
    /\ ScanIdle
    /\ StatusOff
    /\ BuildingOff
    /\ SummaryOff
    /\ DedupOff
    /\ GroupsOff
    /\ XioOff

NextWindow ==
    \/ StartRun
    \/ FetchFleetListing
    \/ PollOk
    \/ SaveOpens
    \/ SaveDumps
    \/ SaveCloses

SpecWindow == InitWindow /\ [][NextWindow]_vars

\* the poller at rest, for the specifications of the other components
ScanOff ==
    /\ SCAN_BATCH_SIZE = 1
    /\ inventory = <<>>
    /\ file = MissingFile
    /\ snapshot = MissingFile
    /\ ScanIdle

\* normalize_status applied to one raw status, and the count that follows
InitStatus ==
    /\ raw_status \in RawStatuses
    /\ status = {}
    /\ counted = ""
    /\ st_pc = "raw"
    /\ ScanOff
    /\ BuildingOff
    /\ SummaryOff
    /\ DedupOff
    /\ GroupsOff
    /\ XioOff

NextStatus ==
    \/ NormalizeStatus
    \/ CountStatus

SpecStatus == InitStatus /\ [][NextStatus]_vars

\* get_building_name applied to one division name
InitBuilding ==
    /\ division \in Divisions
    /\ building = ""
    /\ bd_pc = "call"
    /\ ScanOff
    /\ StatusOff
    /\ SummaryOff
    /\ DedupOff
    /\ GroupsOff
    /\ XioOff

NextBuilding == GetBuildingName

SpecBuilding == InitBuilding /\ [][NextBuilding]_vars

\* build_summary over any input of at most MaxComputers records
InitSummary ==
    /\ SummaryStart
    /\ sm_pc = "loop"
    /\ ScanOff
    /\ StatusOff
    /\ BuildingOff
    /\ DedupOff
    /\ GroupsOff
    /\ XioOff

NextSummary ==
    \/ ProcessAnyComputer
    \/ BuildSummary

SpecSummary == InitSummary /\ [][NextSummary]_vars

\* the deduplication step applied to a sequence and then to its own output
InitDedup ==
    /\ computers \in SeqsUpTo(DedupComputers, MaxDedupLen)
    /\ deduped = <<>>
    /\ deduped_again = <<>>
    /\ dd_pc = "input"
    /\ ScanOff
    /\ StatusOff
    /\ BuildingOff
    /\ SummaryOff
    /\ GroupsOff
    /\ XioOff

NextDedup ==
    \/ Deduplicate
    \/ DeduplicateAgain

SpecDedup == InitDedup /\ [][NextDedup]_vars

\* find_interest_root_group called with any leaf on any parent map
InitGroups ==
    /\ parent_map \in ParentMaps
    /\ device_group_id \in TreeIds \cup {NoGroup}
    /\ gid = NoGroup
    /\ visited = {}
    /\ root_gid = {}
    /\ visits = 0
    /\ gr_pc = "call"
    /\ ScanOff
    /\ StatusOff
    /\ BuildingOff
    /\ SummaryOff
    /\ DedupOff
    /\ XioOff

NextGroups ==
    \/ EnterFind
    \/ ReturnInterest
    \/ WalkUp
    \/ ReturnNone

SpecGroups == InitGroups /\ [][NextGroups]_vars

\* main of xio_summary.py on any device list and any parent map
InitXio ==
    /\ devices \in DeviceLists
    /\ parent_map \in SummaryParentMaps
    /\ device_group_id = NoGroup
    /\ gid = NoGroup
    /\ visited = {}
    /\ root_gid = {}
    /\ visits = 0
    /\ gr_pc = "off"
    /\ summary = {}
    /\ counts_by_label = <<>>
    /\ dev_i = 0
    /\ group_summary = {}
    /\ groups_flat = <<>>
    /\ rootOf = <<>>
    /\ countedUnder = <<>>
    /\ xs_pc = "fetched"
    /\ ScanOff
    /\ StatusOff
    /\ BuildingOff
    /\ SummaryOff
    /\ DedupOff

NextXio ==
    \/ SummarizeOverall
    \/ EnterGroupSummary
    \/ SkipGroupSummary
    \/ TakeDevice
    \/ EnterFind
    \/ ReturnInterest
    \/ WalkUp
    \/ ReturnNone
    \/ CountDevice
    \/ BuildGroupSummaries
    \/ BuildFlatFiles

SpecXio == InitXio /\ [][NextXio]_vars

\* either program produces its buckets: main of xio_summary.py, or
\* build_summary of key_summary.py
InitBuckets == InitXio \/ InitSummary

NextBuckets ==
    \/ SummarizeOverall
    \/ EnterGroupSummary
    \/ SkipGroupSummary
    \/ TakeDevice
    \/ EnterFind
    \/ ReturnInterest
    \/ WalkUp
    \/ ReturnNone
    \/ CountDevice
    \/ BuildGroupSummaries
    \/ BuildFlatFiles
    \/ ProcessNamedComputer
    \/ BuildSummary

SpecBuckets == InitBuckets /\ [][NextBuckets]_vars

-----------------------------------------------------------------------------
(* Claims about the scan cursor                                            *)

\* the cursor the current run read from the document it loaded
StartIndex == LastScanIndex(snapshot.meta)

\* C1: every index a run computes to select a device lies in
\* [0, current device count), whatever cursor the run read (also one beyond
\* the current list, after the list shrank), and every document on disk
\* satisfies 0 <= lastScanIndex < lastDeviceCount.
C1_CursorBounds ==
    /\ \A k \in DOMAIN selected :
           selected[k] >= 0 /\ selected[k] < Len(device_ids)
    /\ file.kind = "doc" =>
           /\ file.meta.lastScanIndex >= 0
           /\ file.meta.lastScanIndex < file.meta.lastDeviceCount

\* a run that read a cursor beyond the shrunken list selected devices and
\* wrote the document
C1_Witness ==
    /\ pc = "done"
    /\ snapshot.kind = "doc"
    /\ StartIndex >= Len(device_ids)
    /\ selected # <<>>
    /\ file.kind = "doc"
    /\ file # snapshot

\* C2: a run without a failed poll polls the identities at positions
\* (lastIndex + i) mod deviceCount of the sorted, deduplicated list, for
\* i = 0 .. min(batchSize, deviceCount) - 1, in that order, and persists
\* lastIndex = (lastIndex + min(batchSize, deviceCount)) mod deviceCount.
C2_WrapWindow ==
    LET n == Len(device_ids)
        b == Min(SCAN_BATCH_SIZE, n)
    IN  (pc = "done" /\ ~limited) =>
            /\ \A j \in 1..n : \A k \in 1..n :
                   j < k => device_ids[j] < device_ids[k]
            /\ Range(device_ids) = Range(inventory) \ {NoId}
            /\ Len(attempts) = b
            /\ \A k \in 1..b :
                   attempts[k] = device_ids[((StartIndex + k - 1) % n) + 1]
            /\ file.kind = "doc"
            /\ file.meta.lastScanIndex = (StartIndex + b) % n

\* deviceCount = 10, lastIndex = 8, batchSize = 5: indices 8, 9, 0, 1, 2 were
\* selected and the cursor is left at 3
C2_Witness ==
    /\ pc = "done"
    /\ Len(device_ids) = 10
    /\ StartIndex = 8
    /\ SCAN_BATCH_SIZE = 5
    /\ selected = <<8, 9, 0, 1, 2>>
    /\ attempts = <<9, 10, 1, 2, 3>>
    /\ file.meta.lastScanIndex = 3

\* C3: a run rate-limited on its (k+1)-th poll after k successful polls
\* persists the cursor (lastIndex + k) mod deviceCount, and with an unchanged
\* device list the next run polls the rate-limited device first.
C3_ResumeAtFailure ==
    /\ (pc = "done" /\ limited) =>
           /\ file.kind = "doc"
           /\ file.meta.lastScanIndex =
                  (StartIndex + (Len(attempts) - 1)) % Len(device_ids)
    /\ (pc # "done" /\ resumeDev # NoId /\ attempts # <<>>) =>
           attempts[1] = resumeDev

\* the run after a rate-limited one, over the same list of several devices,
\* has polled its first device, away from the start of the list
C3_Witness ==
    /\ pc \in {"scanning", "finish"}
    /\ resumeDev # NoId
    /\ attempts # <<>>
    /\ Len(device_ids) >= 2
    /\ last_index > 0

\* C4: after a per-device fetch answered 429 the run issues no further
\* external call, and it still writes the document: the metadata of the
\* devices polled before the limit, the cursor advanced over those only.
C4_NoRetryAfterRateLimit ==
    /\ callsAfterLimit = 0
    /\ limited => pc \notin {"loaded", "scanning"}
    /\ (pc = "done" /\ limited) =>
           LET k == Len(attempts) - 1
               n == Len(device_ids)
           IN  file = DocFile(
                   [meta |-> [lastScanIndex |-> (StartIndex + k) % n,
                              lastDeviceCount |-> n,
                              scanBatchSize |-> SCAN_BATCH_SIZE],
                    devices |-> snapshot.devices
                                  \cup {attempts[j] : j \in 1..k}])

\* a run was rate-limited after at least one successful poll and has written
C4_Witness ==
    /\ pc = "done"
    /\ limited
    /\ Len(attempts) >= 2
    /\ file.devices # snapshot.devices

\* C5 (as claimed): whenever a run has terminated abnormally, the file holds
\* the complete document the run found or the complete new one, never an
\* empty or partial document.
C5_SnapshotPreserved ==
    pc = "aborted" =>
        /\ file.kind \in {"missing", "doc"}
        /\ file = snapshot \/ file = DocFile(meta_obj)

-----------------------------------------------------------------------------
(* Claims about key_summary.py                                             *)

\* Counter lookups that tolerate a missing label
CountIn(table, label, key) ==
    IF label \in DOMAIN table THEN CountOf(table[label], key) ELSE 0

\* the devices the first record of each key, and each countable record
\* without a key, put under a status and a division
ExpectedCount(st, div) ==
    Cardinality({k \in DOMAIN firstOf :
                    /\ firstOf[k].countable
                    /\ firstOf[k].status = st
                    /\ firstOf[k].division = div})
    + CountOf(loose, <<st, div>>)

RECURSIVE ExpectedOver(_, _)
ExpectedOver(st, divs) ==
    IF divs = {} THEN 0
    ELSE LET d == CHOOSE x \in divs : TRUE
         IN  ExpectedCount(st, d) + ExpectedOver(st, divs \ {d})

DivisionLabels == {DivisionOf(c) : c \in Computers}
BuildingLabels == {get_building_name(d) : d \in DivisionLabels}

\* C6 (as claimed): every identity key met contributes exactly one device.
C6_OneDevicePerKey ==
    \A k \in DOMAIN firstOf : CountOf(countedFor, k) = 1

\* C6 (amended): every identity key contributes at most one device: exactly
\* one, under the status, division and building of the first record carrying
\* the key, when that first record is countable (division not excluded,
\* Allowed dedicated, status 0, 2 or 4), and none otherwise; later records
\* with the key change no count.
C6_FirstRecordDecides ==
    /\ DOMAIN firstOf = seen_keys
    /\ \A k \in DOMAIN firstOf :
           CountOf(countedFor, k) = IF firstOf[k].countable THEN 1 ELSE 0
    /\ DOMAIN overall \subseteq ALLOWED_STATUS
    /\ DOMAIN by_division \subseteq DivisionLabels
    /\ DOMAIN by_building \subseteq BuildingLabels
    /\ \A st \in ALLOWED_STATUS :
           /\ CountOf(overall, st) = ExpectedOver(st, DivisionLabels)
           /\ \A d \in DivisionLabels :
                  CountIn(by_division, d, st) = ExpectedCount(st, d)
           /\ \A b \in BuildingLabels :
                  CountIn(by_building, b, st) =
                      ExpectedOver(st, {d \in DivisionLabels :
                                           get_building_name(d) = b})

\* two records share "ID-1", the first with status 2, the second, countable
\* on its own, with status 4: one device is counted, under Available
C6_Witness ==
    /\ processed = 2
    /\ DOMAIN firstOf = {"ID-1"}
    /\ firstOf["ID-1"].countable
    /\ firstOf["ID-1"].status = 2
    /\ skipped = {<<"ID-1", 4, TRUE>>}
    /\ overall = (2 :> 1)
    /\ STATUS_LABELS[2] = "Available"
    /\ Total(by_division[firstOf["ID-1"].division]) = 1
    /\ Cardinality(DOMAIN by_building) = 1

\* the records of a sequence that carry no usable identity key, in order
Keyless(records) ==
    SelectSeq(records,
              LAMBDA r : /\ ~Truthy(r.ID)
                         /\ ~Truthy(r.Ident)
                         /\ ~Truthy(r.ident)
                         /\ ~Truthy(r.Name))

\* C7: the deduplication step applied to its own output returns it
\* unchanged, and the records without a usable identity key are all kept.
C7_DedupIdempotent ==
    /\ dd_pc \in {"once", "twice"} => Keyless(deduped) = Keyless(computers)
    /\ dd_pc = "twice" => deduped_again = deduped

\* the step removed a duplicate, kept two records without a key, and was
\* applied again
C7_Witness ==
    /\ dd_pc = "twice"
    /\ Len(deduped) < Len(computers)
    /\ Len(Keyless(deduped)) >= 2
    /\ deduped_again = deduped

\* the label the two ordered rule paths give a raw status; "" is "in no bucket"
RuleLabel(raw) ==
    LET code == IntOf(raw)
        text == Lower(Strip(Str(raw)))
    IN  IF code # {}
        THEN LET c == CHOOSE x \in code : TRUE
             IN  CASE c = 1 -> ""
                   [] c = 3 -> "Available"
                   [] c = 0 -> "Offline"
                   [] c = 2 -> "Available"
                   [] c = 4 -> "In Use"
                   [] OTHER -> ""
        ELSE CASE StartsWith(text, "off") -> "Offline"
               [] Contains(text, "idle") -> "Available"
               [] Contains(text, "avail") \/ Contains(text, "online") ->
                      "Available"
               [] Contains(text, "in use") \/ Contains(text, "active") ->
                      "In Use"
               [] OTHER -> ""

\* C8: a raw status that parses as an integer is classified by its code
\* (1 unclassified, 3 as Available, 0/2/4 as Offline/Available/In Use, any
\* other code in no bucket); any other value by the first matching text
\* rule, in the order off-prefix, idle, avail/online, in use/active; the
\* record is counted only under Offline, Available or In Use.
C8_StatusRules ==
    st_pc \in {"counted", "skipped"} =>
        /\ counted = RuleLabel(raw_status)
        /\ st_pc = "counted" <=> counted \in {"Offline", "Available", "In Use"}
        /\ IntOf(raw_status) = {1} => status = {}
        /\ IntOf(raw_status) = {3} => status = {2}

\* a text matching both the idle rule and the later active rule was counted
\* as Available
C8_Witness ==
    /\ st_pc = "counted"
    /\ raw_status.type = "str"
    /\ Contains(Lower(raw_status.s), "idle")
    /\ Contains(Lower(raw_status.s), "active")
    /\ counted = "Available"

\* the table entries one of whose patterns occurs in the lower-cased text
MatchingEntries(text) ==
    {e \in DOMAIN BUILDING_PATTERNS :
        \E k \in DOMAIN BUILDING_PATTERNS[e].patterns :
            Contains(text, BUILDING_PATTERNS[e].patterns[k])}

\* the number of whitespace-separated words: positions where a word starts
WordCount(s) ==
    Cardinality({k \in 1..Len(s) :
        /\ CharAt(s, k) \notin Whitespace
        /\ k = 1 \/ CharAt(s, k - 1) \in Whitespace})

\* C9: the building is the label of the first table entry, in table order,
\* with a pattern occurring in the lower-cased division, also when a later
\* entry matches too; without a match a division of at most 3 words is
\* returned verbatim, and anything else, an empty or absent division
\* included, gives "Other / Ungrouped".
C9_FirstMatchWins ==
    bd_pc = "returned" =>
        LET absent == division \in {PyNone, ""}
            hits == MatchingEntries(Lower(IF absent THEN "" ELSE division))
        IN  IF hits # {}
            THEN \E e \in hits :
                     /\ \A o \in hits : e <= o
                     /\ building = BUILDING_PATTERNS[e].building
            ELSE IF ~absent /\ WordCount(division) <= 3
                 THEN building = division
                 ELSE building = "Other / Ungrouped"

\* a division matching the Education Library entry and the later Norman
\* Hall entry was classified as Education Library
C9_Witness ==
    /\ bd_pc = "returned"
    /\ division # PyNone
    /\ Contains(Lower(division), "norman hall")
    /\ Contains(Lower(division), "edu")
    /\ building = "Education Library"

-----------------------------------------------------------------------------
(* Claims about xio_summary.py                                             *)

\* the distinct group ids at hand: those listed in the parent map, those
\* named as a parent, and the leaf
GroupIds ==
    (DOMAIN parent_map \cup {parent_map[g] : g \in DOMAIN parent_map}
                       \cup {device_group_id}) \ {NoGroup}

\* the parent chain from g: the ids on it up to its root or to its first
\* repetition, and whether it ended in a repetition
RECURSIVE ChainFrom(_, _)
ChainFrom(g, seen) ==
    IF g = NoGroup THEN [ids |-> seen, cycle |-> FALSE]
    ELSE IF g \in seen THEN [ids |-> seen, cycle |-> TRUE]
    ELSE ChainFrom(ParentOf(g), seen \cup {g})

\* C10: on every parent map, with cycles and self-parents, the walk examines
\* at most as many ids as there are distinct group ids (so it ends: every
\* step of the loop examines an id or returns), and a chain that runs into a
\* cycle without meeting a group of interest gives "not found".
C10_ResolutionTerminates ==
    /\ visits <= Cardinality(GroupIds)
    /\ gr_pc = "returned" =>
           LET chain == ChainFrom(device_group_id, {})
           IN  (chain.cycle /\ chain.ids \cap GROUP_IDS_OF_INTEREST = {}) =>
                   root_gid = {}

\* the walk went round a cycle of two or more groups and returned None
C10_Witness ==
    /\ gr_pc = "returned"
    /\ ChainFrom(device_group_id, {}).cycle
    /\ Cardinality(visited) >= 2
    /\ gid \in visited
    /\ root_gid = {}

\* the parent chain from g in order: g, parent(g), parent(parent(g)), ... up
\* to its root or to its first repetition
RECURSIVE ChainList(_, _)
ChainList(g, chain) ==
    IF g = NoGroup \/ g \in Range(chain) THEN chain
    ELSE ChainList(ParentOf(g), Append(chain, g))

\* the first id of that chain that is a group of interest: {id}, or {} when
\* the chain holds none
NearestInterest(g) ==
    LET chain == ChainList(g, <<>>)
        hits == {k \in DOMAIN chain : chain[k] \in GROUP_IDS_OF_INTEREST}
    IN  IF hits = {} THEN {}
        ELSE {chain[CHOOSE k \in hits : \A h \in hits : k <= h]}

\* the devices of the list, by position, whose group resolves to the group
\* of interest labelled name, with the status st
ResolvingTo(name, st) ==
    {k \in DOMAIN devices :
        /\ devices[k].group # NoGroup
        /\ \E r \in NearestInterest(devices[k].group) :
               GROUPS_OF_INTEREST[r] = name
        /\ DeviceStatus(devices[k]) = st}

DeviceStatuses == {"Online", "Offline", "Unknown"}

\* C11: find_interest_root_group returns the first id on the chain leaf,
\* parent(leaf), ... that is a group of interest (the leaf itself included,
\* the closer of several) and None exactly when the chain up to its root or
\* first repetition holds none; every device with a group is counted under
\* the label of that group and under no other, so that each bucket counts
\* exactly the devices that resolve to its group.
C11_NearestInterestAncestor ==
    /\ gr_pc = "returned" => root_gid = NearestInterest(device_group_id)
    /\ \A k \in DOMAIN rootOf :
           devices[k].group # NoGroup =>
               /\ rootOf[k] = NearestInterest(devices[k].group)
               /\ countedUnder[k] =
                      {GROUPS_OF_INTEREST[r] : r \in rootOf[k]}
    /\ \A summaries \in group_summary :
           \A b \in DOMAIN summaries :
               \A st \in DeviceStatuses :
                   CountOf(summaries[b].counts, st) =
                       Cardinality(ResolvingTo(summaries[b].name, st))

\* a device two levels below the group of interest 1, itself inside the
\* group of interest 3, was counted under the label of 1 and nowhere else
C11_Witness ==
    /\ xs_pc = "done"
    /\ \E k \in DOMAIN devices :
           /\ devices[k].group = 8
           /\ ChainList(8, <<>>) = <<8, 7, 1, 3>>
           /\ rootOf[k] = {1}
           /\ countedUnder[k] = {"Malachowsky Hall"}
    /\ \E summaries \in group_summary :
           /\ summaries[1].total >= 1
           /\ \A b \in DOMAIN summaries : b # 1 => summaries[b].total = 0

\* the buckets of xio_summary.py at hand: the overall summary and the
\* summaries of the groups of interest
OnlineBuckets ==
    summary \cup UNION {Range(summaries) : summaries \in group_summary}

\* the buckets of key_summary.py at hand: by division and by building
StatusBuckets == Range(divisions_list) \cup Range(buildings_list)

\* the sum of the counts of a "statuses" list
RECURSIVE StatusesTotal(_)
StatusesTotal(statuses) ==
    IF statuses = <<>> THEN 0
    ELSE Head(statuses).count + StatusesTotal(Tail(statuses))

\* onlinePct is held in tenths of a percent: [0, 100] is 0..1000
PctInRange(b) ==
    /\ "onlinePct" \in DOMAIN b
    /\ b.onlinePct \in 0..1000
    /\ b.total = 0 => b.onlinePct = 0

OneBucketPerGroup(summaries) ==
    /\ Len(summaries) = Len(GROUPS_OF_INTEREST)
    /\ \A g \in GROUP_IDS_OF_INTEREST :
           /\ Cardinality({k \in DOMAIN summaries :
                   summaries[k].name = GROUPS_OF_INTEREST[g]}) = 1
           /\ \A k \in DOMAIN summaries :
                  (/\ summaries[k].name = GROUPS_OF_INTEREST[g]
                   /\ \A st \in DeviceStatuses :
                          ResolvingTo(GROUPS_OF_INTEREST[g], st) = {})
                  => /\ summaries[k].counts = <<>>
                     /\ summaries[k].total = 0
                     /\ summaries[k].onlinePct = 0

\* the same of the rows of xio-groups-flat.json
OneRowPerGroup(rows) ==
    /\ Len(rows) = Len(GROUPS_OF_INTEREST)
    /\ \A g \in GROUP_IDS_OF_INTEREST :
           Cardinality({k \in DOMAIN rows :
               rows[k].group_name = GROUPS_OF_INTEREST[g]}) = 1

\* C13 as stated: for every device list and every group hierarchy the
\* output of a finished run holds exactly one bucket for each configured
\* group of interest, empty buckets included.
C13_PreSeededShape ==
    xs_pc = "done" =>
        /\ \E summaries \in group_summary : OneBucketPerGroup(summaries)
        /\ OneRowPerGroup(groups_flat)

\* C13, amended: that holds of every device list and every parent map that
\* lists at least one group; with an empty parent map (no usable group
\* tree) the aggregation is skipped and no bucket at all is produced.
C13_PreSeededUnlessNoTree ==
    /\ xs_pc \in {"loop", "flat", "done"} /\ DOMAIN parent_map # {} =>
           /\ Len(counts_by_label) = Len(GROUPS_OF_INTEREST)
           /\ \A k \in DOMAIN counts_by_label :
                  counts_by_label[k].name = GROUPS_OF_INTEREST[k]
    /\ xs_pc \in {"flat", "done"} /\ DOMAIN parent_map # {} =>
           \E summaries \in group_summary : OneBucketPerGroup(summaries)
    /\ xs_pc = "done" /\ DOMAIN parent_map # {} =>
           OneRowPerGroup(groups_flat)
    /\ xs_pc = "done" /\ DOMAIN parent_map = {} =>
           group_summary = {} /\ groups_flat = <<>>

\* a run over two devices that resolve to the same group of interest: the
\* five other groups are in the output, empty
C13_Witness ==
    /\ xs_pc = "done"
    /\ Len(devices) = 2
    /\ \E summaries \in group_summary :
           /\ summaries[1].total = 2
           /\ \A k \in 2..Len(GROUPS_OF_INTEREST) :
                  /\ summaries[k].name = GROUPS_OF_INTEREST[k]
                  /\ summaries[k].counts = <<>>
                  /\ summaries[k].total = 0
    /\ Len(groups_flat) = Len(GROUPS_OF_INTEREST)

\* a <= b for two texts compared without regard to case
LessOrEqualIgnoringCase(a, b) == ~TextLess(Lower(b), Lower(a))

\* the labels of a list of buckets are in ascending order
AscendingIgnoringCase(labels) ==
    \A k \in 1..(Len(labels) - 1) :
        LessOrEqualIgnoringCase(labels[k], labels[k + 1])
Ascending(labels) ==
    \A k \in 1..(Len(labels) - 1) : ~TextLess(labels[k + 1], labels[k])

\* C14: in every output list the buckets are in ascending order of their
\* label: the divisions and the buildings (and the divisions named in a
\* building bucket) compared without regard to case, the groups of interest
\* by their configured name.
C14_BucketsAscending ==
    /\ AscendingIgnoringCase(
           [k \in DOMAIN divisions_list |-> divisions_list[k].division])
    /\ AscendingIgnoringCase(
           [k \in DOMAIN buildings_list |-> buildings_list[k].building])
    /\ \A k \in DOMAIN buildings_list :
           AscendingIgnoringCase(buildings_list[k].divisions)
    /\ \A summaries \in group_summary :
           Ascending([k \in DOMAIN summaries |-> summaries[k].name])
    /\ Ascending([k \in DOMAIN groups_flat |-> groups_flat[k].group_name])

-----------------------------------------------------------------------------
(* Claims about the coverage of the round-robin scan                       *)

\* C15: with a fixed fleet of N >= 1 devices, a batch size B >= 1 and no
\* failed poll, whatever cursor the first run reads, no device is polled
\* twice within one run, and any ceil(N / min(B, N)) consecutive runs poll
\* every device at least once.
C15_RoundRobinCoverage ==
    /\ \A j \in DOMAIN attempts : \A k \in DOMAIN attempts :
           j # k => attempts[j] # attempts[k]
    /\ (device_ids # <<>> /\ Len(recent) = RunsToCover) =>
           UNION Range(recent) = Range(device_ids)

\* five devices polled two at a time from a cursor beyond the list: three
\* consecutive runs polled all five, one of them twice
C15_Witness ==
    /\ pc = "done"
    /\ Len(device_ids) = 5
    /\ SCAN_BATCH_SIZE = 2
    /\ Len(recent) = 3
    /\ recent[1] \cap recent[3] # {}
    /\ UNION Range(recent) = 1..5
    /\ snapshot.kind = "doc"

=============================================================================
